---- MODULE Spec2Model ----
(***************************************************************************)
(* Model of the bot-classification code of the useragent package           *)
(* (src/bot.go) and of the bad-bot list loader (src/bad_bots.go).          *)
(*                                                                         *)
(* Go strings are modelled as TLA+ strings; the operators below are the    *)
(* package "strings" / "regexp" functions the code calls, computed the way *)
(* the library computes them, over ASCII text.  Indices returned by Index  *)
(* are 0-based as in Go; SubSeq is 1-based.                                *)
(***************************************************************************)
EXTENDS Integers, Sequences, FiniteSets, TLC

VARIABLES
    p,            \* the receiver *UserAgent (fields ua, mozilla, platform, os,
                  \* localization, bot, undecided, browser)
    pre,          \* the receiver as it was when the last operation was called
    sections,     \* the sections the tokenizer made of the header
    ret,          \* the value the last operation returned ("none" if void)
    op,           \* the last operation that ran, with its arguments
    file,         \* what LoadBadBots("bad_bots.yaml") yields in this process
    badBotsList,  \* the package variable badBotsList
    badBotsOnce,  \* the package variable badBotsOnce: [done, m]
    pc,           \* position of every goroutine inside LoadBadBotsYAML
    got,          \* the list every goroutine last received from LoadBadBotsYAML
    loads,        \* how many times LoadBadBots was started / has finished
    c,            \* a comment field handed to the bad-bot loop of checkBot
    comment,      \* a comment list handed to getFromSite
    out           \* the result of the last pure function applied

vars == <<p, pre, sections, ret, op, file, badBotsList, badBotsOnce, pc, got,
          loads, c, comment, out>>

-----------------------------------------------------------------------------
(* Bounds of the model.                                                    *)

MaxSections == 2
MaxBots == 2
MaxComment == 5
NumProcs == 2

-----------------------------------------------------------------------------
(* package strings                                                         *)

Ch(s, i) == SubSeq(s, i, i)

Min(S) == CHOOSE x \in S : \A y \in S : x <= y

Max(S) == CHOOSE x \in S : \A y \in S : x >= y

lowerRune(ch) ==
    CASE ch = "A" -> "a" [] ch = "B" -> "b" [] ch = "C" -> "c" [] ch = "D" -> "d"
      [] ch = "E" -> "e" [] ch = "F" -> "f" [] ch = "G" -> "g" [] ch = "H" -> "h"
      [] ch = "I" -> "i" [] ch = "J" -> "j" [] ch = "K" -> "k" [] ch = "L" -> "l"
      [] ch = "M" -> "m" [] ch = "N" -> "n" [] ch = "O" -> "o" [] ch = "P" -> "p"
      [] ch = "Q" -> "q" [] ch = "R" -> "r" [] ch = "S" -> "s" [] ch = "T" -> "t"
      [] ch = "U" -> "u" [] ch = "V" -> "v" [] ch = "W" -> "w" [] ch = "X" -> "x"
      [] ch = "Y" -> "y" [] ch = "Z" -> "z" [] OTHER -> ch

RECURSIVE ToLower(_)
ToLower(s) ==
    IF Len(s) = 0 THEN ""
    ELSE lowerRune(Ch(s, 1)) \o ToLower(SubSeq(s, 2, Len(s)))

\* strings.Index: 0-based position of the first occurrence of substr, or -1.
Index(s, substr) ==
    LET hits == {i \in 0..(Len(s) - Len(substr)) :
                    SubSeq(s, i + 1, i + Len(substr)) = substr}
    IN  IF hits = {} THEN -1 ELSE Min(hits)

Contains(s, substr) == Index(s, substr) # -1

\* strings.SplitN(s, sep, 2) for a one-character separator.
SplitN2(s, sep) ==
    LET i == Index(s, sep)
    IN  IF i = -1 THEN <<s>>
        ELSE <<SubSeq(s, 1, i), SubSeq(s, i + 2, Len(s))>>

\* unicode.IsSpace restricted to the ASCII white space a TLA+ string can hold.
isSpace(ch) == ch \in {" ", "\t", "\n", "\r", "\f"}

TrimSpace(s) ==
    LET keep == {i \in 1..Len(s) : ~isSpace(Ch(s, i))}
    IN  IF keep = {} THEN "" ELSE SubSeq(s, Min(keep), Max(keep))

-----------------------------------------------------------------------------
(* package regexp: botFromSiteRegexp = `http[s]?://.+\.\w+`                *)

WordChars == "0123456789ABCDEFGHIJKLMNOPQRSTUVWXYZ_abcdefghijklmnopqrstuvwxyz"

isWord(ch) == Len(ch) = 1 /\ Contains(WordChars, ch)

\* The literal lit stands in s at position i (1-based).
hasAt(s, i, lit) ==
    i + Len(lit) - 1 <= Len(s) /\ SubSeq(s, i, i + Len(lit) - 1) = lit

\* Position (1-based) of the first character after "http://" or "https://"
\* when that prefix starts at i, and 0 when it does not.
schemeEnd(s, i) ==
    IF hasAt(s, i, "https://") THEN i + 8
    ELSE IF hasAt(s, i, "http://") THEN i + 7
    ELSE 0

\* Positions of a '.' that `.+\.\w+` can use when `.+` starts at k: at least
\* one character lies between k and the dot, none of them a newline ('.' does
\* not match "\n"), and a word character follows the dot.
dotsFrom(s, k) ==
    {d \in (k + 1)..(Len(s) - 1) :
        /\ Ch(s, d) = "."
        /\ isWord(Ch(s, d + 1))
        /\ \A j \in k..(d - 1) : Ch(s, j) # "\n"}

\* End of the run of word characters that starts at position j.
RECURSIVE wordRunEnd(_, _)
wordRunEnd(s, j) ==
    IF j < Len(s) /\ isWord(Ch(s, j + 1)) THEN wordRunEnd(s, j + 1) ELSE j

matchStarts(s) ==
    {i \in 1..Len(s) : schemeEnd(s, i) # 0 /\ dotsFrom(s, schemeEnd(s, i)) # {}}

\* botFromSiteRegexp.FindStringSubmatch(s): the empty sequence when nothing
\* matches, otherwise the one-element sequence holding the leftmost match with
\* the greedy `.+` and `\w+` as long as they can be.
botFromSiteRegexp(s) ==
    IF matchStarts(s) = {} THEN <<>>
    ELSE LET i == Min(matchStarts(s))
             d == Max(dotsFrom(s, schemeEnd(s, i)))
         IN  <<SubSeq(s, i, wordRunEnd(s, d + 1))>>

-----------------------------------------------------------------------------
(* getFromSite                                                             *)

\* siteIdx with the four-field case taken for "four or more fields".
siteIdxFourOrMore(cm) == IF Len(cm) < 3 THEN 0 ELSE IF Len(cm) >= 4 THEN 3 ELSE 2

siteIdx(cm) == IF Len(cm) < 3 THEN 0 ELSE IF Len(cm) = 4 THEN 3 ELSE 2

getFromSite(cm) ==
    IF Len(cm) = 0 THEN ""
    ELSE LET idx == siteIdx(cm)
             results == botFromSiteRegexp(cm[idx + 1])
         IN  IF Len(results) = 1
             THEN IF idx = 0 THEN results[1] ELSE TrimSpace(cm[idx])
             ELSE ""

-----------------------------------------------------------------------------
(* LoadBadBots and the once-guarded package list                           *)

\* LoadBadBots(path): f is what the file system and the YAML decoder make of
\* bad_bots.yaml in this process; an error comes with a nil list.
LoadBadBots(f) ==
    IF f.err THEN [list |-> <<>>, err |-> TRUE]
    ELSE [list |-> f.bots, err |-> FALSE]

\* The function handed to badBotsOnce.Do: the value of badBotsList after it.
onceBody(f, cur) ==
    LET r == LoadBadBots(f) IN IF ~r.err THEN r.list ELSE cur

\* What a LoadBadBotsYAML() call made by sequential code returns.
LoadBadBotsYAML(f, once, cur) ==
    IF once.done THEN cur ELSE onceBody(f, cur)

-----------------------------------------------------------------------------
(* setSimple, fixOther, isKnownBadBot                                      *)

\* setSimple clearing the Mozilla marker for bots too.
setSimpleClearsMozilla(u, name, version, bot) ==
    [u EXCEPT !.bot = bot,
              !.mozilla = "",
              !.browser = [Name |-> name, Version |-> version,
                           Engine |-> "", EngineVersion |-> ""],
              !.os = "",
              !.localization = ""]

setSimple(u, name, version, bot) ==
    [u EXCEPT !.bot = bot,
              !.mozilla = IF ~bot THEN "" ELSE @,
              !.browser = [Name |-> name, Version |-> version,
                           Engine |-> "", EngineVersion |-> ""],
              !.os = "",
              !.localization = ""]

fixOther(u, secs) ==
    IF Len(secs) > 0
    THEN [u EXCEPT !.browser.Name = secs[1].name,
                   !.browser.Version = secs[1].version,
                   !.mozilla = ""]
    ELSE u

isKnownBadBot(s, bots) ==
    \E k \in 1..Len(bots) : Contains(ToLower(s), ToLower(bots[k]))

-----------------------------------------------------------------------------
(* The bad-bot loop over one comment field (checkBot, general case)        *)

\* The version cut at the first ' ' or ';'.
cutVersion(ver) ==
    LET stops == {i \in 1..Len(ver) : Ch(ver, i) \in {" ", ";"}}
    IN  IF stops = {} THEN ver ELSE SubSeq(ver, 1, Min(stops) - 1)

\* matchedVersion for a match found at the 0-based position idx of field f.
botVersion(f, idx) ==
    LET lowerC == SubSeq(f, idx + 1, Len(f))
        parts == SplitN2(lowerC, "/")
    IN  IF Len(parts) = 2 THEN cutVersion(parts[2]) ELSE ""

\* The bad-bot loop reporting the configured identifier instead of the text of
\* the field.
RECURSIVE matchBotsConfigured(_, _, _)
matchBotsConfigured(f, bots, k) ==
    IF k > Len(bots)
    THEN [matched |-> "", matchedVersion |-> "", matchedOriginal |-> ""]
    ELSE LET bot == bots[k]
             idx == Index(ToLower(f), ToLower(bot))
         IN  IF idx # -1
             THEN [matched |-> bot,
                   matchedVersion |-> botVersion(f, idx),
                   matchedOriginal |-> bot]
             ELSE matchBotsConfigured(f, bots, k + 1)

\* The loop `for _, bot := range LoadBadBotsYAML()` from its k-th element on:
\* the values of matched, matchedVersion and matchedOriginal when it ends.
RECURSIVE matchBots(_, _, _)
matchBots(f, bots, k) ==
    IF k > Len(bots)
    THEN [matched |-> "", matchedVersion |-> "", matchedOriginal |-> ""]
    ELSE LET bot == bots[k]
             idx == Index(ToLower(f), ToLower(bot))
         IN  IF idx # -1
             THEN [matched |-> bot,
                   matchedVersion |-> botVersion(f, idx),
                   matchedOriginal |-> SubSeq(f, idx + 1, idx + Len(bot))]
             ELSE matchBots(f, bots, k + 1)

\* The name handed to setSimple for a field on which the loop ended in m.
nameToSet(m) == IF m.matchedOriginal = "" THEN m.matched ELSE m.matchedOriginal

\* The loop `for _, c := range v.comment` from its j-th field on: the index of
\* the first field for which matched # "", and 0 when there is none.
RECURSIVE firstBotField(_, _, _)
firstBotField(cm, bots, j) ==
    IF j > Len(cm) THEN 0
    ELSE IF matchBots(cm[j], bots, 1).matched # "" THEN j
    ELSE firstBotField(cm, bots, j + 1)

-----------------------------------------------------------------------------
(* checkBot                                                                *)

\* The section loop testing the section name before the site reference.
RECURSIVE checkSectionsNameFirst(_, _, _, _)
checkSectionsNameFirst(u, secs, bots, i) ==
    IF i > Len(secs) THEN [p |-> u, ret |-> FALSE]
    ELSE LET v == secs[i]
             j == firstBotField(v.comment, bots, 1)
             name == getFromSite(v.comment)
         IN  IF j # 0
             THEN LET m == matchBots(v.comment[j], bots, 1)
                  IN  [p |-> setSimple(u, nameToSet(m), m.matchedVersion, TRUE),
                       ret |-> TRUE]
             ELSE IF isKnownBadBot(v.name, bots)
             THEN [p |-> setSimple(u, v.name, v.version, TRUE), ret |-> TRUE]
             ELSE IF name # ""
             THEN LET results == SplitN2(name, "/")
                      version == IF Len(results) = 2 THEN results[2] ELSE ""
                  IN  [p |-> setSimple(u, results[1], version, TRUE),
                       ret |-> TRUE]
             ELSE checkSectionsNameFirst(u, secs, bots, i + 1)

\* The loop `for _, v := range sections` from its i-th section on: the
\* receiver and the value returned.
RECURSIVE checkSections(_, _, _, _)
checkSections(u, secs, bots, i) ==
    IF i > Len(secs) THEN [p |-> u, ret |-> FALSE]
    ELSE LET v == secs[i]
             j == firstBotField(v.comment, bots, 1)
             name == getFromSite(v.comment)
         IN  IF j # 0
             THEN LET m == matchBots(v.comment[j], bots, 1)
                  IN  [p |-> setSimple(u, nameToSet(m), m.matchedVersion, TRUE),
                       ret |-> TRUE]
             ELSE IF name # ""
             THEN LET results == SplitN2(name, "/")
                      version == IF Len(results) = 2 THEN results[2] ELSE ""
                  IN  [p |-> setSimple(u, results[1], version, TRUE),
                       ret |-> TRUE]
             ELSE IF isKnownBadBot(v.name, bots)
             THEN [p |-> setSimple(u, v.name, v.version, TRUE), ret |-> TRUE]
             ELSE checkSections(u, secs, bots, i + 1)

\* checkBot falling back to the first section when it finds no bot.
checkBotWithFallback(u, secs, bots) ==
    IF Len(secs) = 1 /\ secs[1].name # "Mozilla"
    THEN IF isKnownBadBot(secs[1].name, bots)
         THEN [p |-> setSimple(u, secs[1].name, secs[1].version, TRUE),
               ret |-> TRUE]
         ELSE IF getFromSite(secs[1].comment) # ""
         THEN [p |-> setSimple(u, secs[1].name, secs[1].version, TRUE),
               ret |-> TRUE]
         ELSE [p |-> setSimple(u, secs[1].name, secs[1].version, FALSE),
               ret |-> FALSE]
    ELSE LET r == checkSections(u, secs, bots, 1)
         IN  IF r.ret THEN r ELSE [p |-> fixOther(u, secs), ret |-> FALSE]

checkBot(u, secs, bots) ==
    IF Len(secs) = 1 /\ secs[1].name # "Mozilla"
    THEN IF isKnownBadBot(secs[1].name, bots)
         THEN [p |-> setSimple(u, secs[1].name, secs[1].version, TRUE),
               ret |-> TRUE]
         ELSE IF getFromSite(secs[1].comment) # ""
         THEN [p |-> setSimple(u, secs[1].name, secs[1].version, TRUE),
               ret |-> TRUE]
         ELSE [p |-> u, ret |-> FALSE]
    ELSE checkSections(u, secs, bots, 1)

\* checkBot reaches a LoadBadBotsYAML() call exactly when it is given at least
\* one section: the single-section branch calls isKnownBadBot first, and the
\* loop body ends in isKnownBadBot unless a comment field (whose loop calls
\* LoadBadBotsYAML) made getFromSite or the bad-bot loop succeed before.
checkBotLoads(secs) == Len(secs) > 0

-----------------------------------------------------------------------------
(* googleOrBingBot, iMessagePreview                                        *)

googleOrBingBot(u) ==
    LET v == IF Contains(u.ua, "Google") \/ Contains(u.ua, "bingbot")
             THEN [u EXCEPT !.platform = "", !.undecided = TRUE]
             ELSE u
    IN  [p |-> v, ret |-> v.undecided]

\* iMessagePreview looking for the two names in any letter case.
iMessagePreviewAnyCase(u) ==
    IF ~Contains(ToLower(u.ua), "facebookexternalhit")
    THEN [p |-> u, ret |-> FALSE]
    ELSE IF ~Contains(ToLower(u.ua), "twitterbot") THEN [p |-> u, ret |-> FALSE]
    ELSE [p |-> [u EXCEPT !.bot = TRUE,
                          !.browser.Name = "iMessage-Preview",
                          !.browser.Engine = "",
                          !.browser.EngineVersion = ""],
          ret |-> TRUE]

iMessagePreview(u) ==
    IF ~Contains(u.ua, "facebookexternalhit") THEN [p |-> u, ret |-> FALSE]
    ELSE IF ~Contains(u.ua, "Twitterbot") THEN [p |-> u, ret |-> FALSE]
    ELSE [p |-> [u EXCEPT !.bot = TRUE,
                          !.browser.Name = "iMessage-Preview",
                          !.browser.Engine = "",
                          !.browser.EngineVersion = ""],
          ret |-> TRUE]

-----------------------------------------------------------------------------
(* Inputs                                                                  *)

Procs == 1..NumProcs

RECURSIVE SeqsUpTo(_, _)
SeqsUpTo(S, n) ==
    IF n = 0 THEN {<<>>}
    ELSE LET shorter == SeqsUpTo(S, n - 1)
         IN  shorter \cup {Append(q, x) : q \in {r \in shorter : Len(r) = n - 1},
                                          x \in S}

Section(name, version, cm) == [name |-> name, version |-> version, comment |-> cm]

SectionPool ==
    { Section("curl", "7.68.0", <<>>),
      Section("curl", "7.68.0", <<"http://s.io">>),
      Section("XBot", "1.0", <<>>),
      Section("XBot", "", <<"compatible", "Sitebot/2.1", "+http://s.io">>),
      Section("XBot", "1.0", <<"compatible; xbot/2.0 extra">>),
      Section("Mozilla", "5.0", <<>>),
      Section("Mozilla", "5.0",
              <<"compatible", "GPTBot/1.0", "+https://openai.com/gptbot">>) }

SectionLists == SeqsUpTo(SectionPool, MaxSections)

okFile(bots) == [err |-> FALSE, bots |-> bots]

errFile == [err |-> TRUE, bots |-> <<>>]

FilePool == {errFile, okFile(<<"xbot">>), okFile(<<"gptbot", "xbot">>)}

UAPool ==
    { "",
      "facebookexternalhit/1.1 Twitterbot/1.0",
      "facebookexternalhit/1.1 Googlebot/2.1",
      "Mozilla/5.0 Twitterbot/1.0",
      "FacebookExternalHit/1.1 twitterbot/1.0 bingbot/2.0" }

blank(ua) ==
    [ua |-> ua, mozilla |-> "", platform |-> "", os |-> "", localization |-> "",
     bot |-> FALSE, undecided |-> FALSE,
     browser |-> [Name |-> "", Version |-> "", Engine |-> "",
                  EngineVersion |-> ""]]

parsed(ua) ==
    [ua |-> ua, mozilla |-> "5.0", platform |-> "Linux", os |-> "Android 4.4",
     localization |-> "en-us", bot |-> FALSE, undecided |-> FALSE,
     browser |-> [Name |-> "Chrome", Version |-> "33.0", Engine |-> "AppleWebKit",
                  EngineVersion |-> "537.36"]]

BotPool == {"xbot", "gptbot", "a/b", "bot", ""}

BotLists == SeqsUpTo(BotPool, MaxBots)

FieldPool ==
    { "", "compatible", "xbot", "xbot/1.2.3;foo", "xbot/2.0 extra",
      "GPTBot/1.1", "a/b/1.0", "x A/B;1", "GptBot 2 XBot/3 ;", "The xBot gptbot/9" }

SiteFieldPool == {"compatible", " Sitebot/2.1 ", "+http://s.io)", "https://s.io"}

CommentLists == SeqsUpTo(SiteFieldPool, MaxComment)

-----------------------------------------------------------------------------
(* Initial states                                                          *)

newOp == [name |-> "new", args |-> <<>>]

InitRecord ==
    /\ p = blank("")
    /\ pre = p
    /\ sections = <<>>
    /\ ret = "none"
    /\ op = newOp

InitOnce ==
    /\ badBotsList = <<>>
    /\ badBotsOnce = [done |-> FALSE, m |-> 0]
    /\ pc = [i \in Procs |-> "idle"]
    /\ got = [i \in Procs |-> [set |-> FALSE, list |-> <<>>]]
    /\ loads = [started |-> 0, finished |-> 0]

InitPure ==
    /\ c = ""
    /\ comment = <<>>
    /\ out = ""

\* A record as the caller hands it over, with the sections the tokenizer made
\* of the header, in a process whose bad_bots.yaml is one of FilePool.
Init ==
    /\ p \in {blank("XBot/1.0"), parsed("XBot/1.0")}
    /\ pre = p
    /\ sections \in SectionLists
    /\ ret = "none"
    /\ op = newOp
    /\ file \in FilePool
    /\ InitOnce
    /\ InitPure

\* A record and its raw header, for the detectors that read only the header.
InitDetect ==
    /\ p \in {blank(ua) : ua \in UAPool} \cup {parsed(ua) : ua \in UAPool}
    /\ pre = p
    /\ sections = <<>>
    /\ ret = "none"
    /\ op = newOp
    /\ file = errFile
    /\ InitOnce
    /\ InitPure

-----------------------------------------------------------------------------
(* The operations on one record, called by sequential code                 *)

\* The effect on the package variables of a LoadBadBotsYAML() call that no
\* other goroutine runs concurrently with.
DoOnce ==
    IF badBotsOnce.done
    THEN UNCHANGED <<badBotsList, badBotsOnce, loads>>
    ELSE /\ badBotsList' = onceBody(file, badBotsList)
         /\ badBotsOnce' = [badBotsOnce EXCEPT !.done = TRUE]
         /\ loads' = [started |-> loads.started + 1,
                      finished |-> loads.finished + 1]

CheckBot ==
    LET r == checkBot(p, sections,
                      LoadBadBotsYAML(file, badBotsOnce, badBotsList))
    IN  /\ pre' = p
        /\ p' = r.p
        /\ ret' = r.ret
        /\ op' = [name |-> "checkBot", args |-> <<>>]
        /\ IF checkBotLoads(sections) THEN DoOnce
           ELSE UNCHANGED <<badBotsList, badBotsOnce, loads>>
        /\ UNCHANGED <<sections, file, pc, got, c, comment, out>>

SetSimple ==
    \E name \in {"Chrome"}, version \in {"33.0"}, bot \in BOOLEAN :
        /\ pre' = p
        /\ p' = setSimple(p, name, version, bot)
        /\ ret' = "none"
        /\ op' = [name |-> "setSimple", args |-> <<name, version, bot>>]
        /\ UNCHANGED <<sections, file, badBotsList, badBotsOnce, pc, got,
                       loads, c, comment, out>>

FixOther ==
    /\ pre' = p
    /\ p' = fixOther(p, sections)
    /\ ret' = "none"
    /\ op' = [name |-> "fixOther", args |-> <<>>]
    /\ UNCHANGED <<sections, file, badBotsList, badBotsOnce, pc, got, loads,
                   c, comment, out>>

GoogleOrBingBot ==
    LET r == googleOrBingBot(p)
    IN  /\ pre' = p
        /\ p' = r.p
        /\ ret' = r.ret
        /\ op' = [name |-> "googleOrBingBot", args |-> <<>>]
        /\ UNCHANGED <<sections, file, badBotsList, badBotsOnce, pc, got,
                       loads, c, comment, out>>

IMessagePreview ==
    LET r == iMessagePreview(p)
    IN  /\ pre' = p
        /\ p' = r.p
        /\ ret' = r.ret
        /\ op' = [name |-> "iMessagePreview", args |-> <<>>]
        /\ UNCHANGED <<sections, file, badBotsList, badBotsOnce, pc, got,
                       loads, c, comment, out>>

Next == CheckBot \/ SetSimple \/ FixOther

Spec == Init /\ [][Next]_vars

NextDetect == IMessagePreview \/ GoogleOrBingBot \/ SetSimple

SpecDetect == InitDetect /\ [][NextDetect]_vars

-----------------------------------------------------------------------------
(* getFromSite applied to one comment list                                 *)

InitSite ==
    /\ InitRecord
    /\ file = errFile
    /\ InitOnce
    /\ c = ""
    /\ comment \in CommentLists
    /\ out = ""

GetFromSite ==
    /\ op = newOp
    /\ out' = getFromSite(comment)
    /\ op' = [name |-> "getFromSite", args |-> <<>>]
    /\ UNCHANGED <<p, pre, sections, ret, file, badBotsList, badBotsOnce, pc,
                   got, loads, c, comment>>

NextSite == GetFromSite

SpecSite == InitSite /\ [][NextSite]_vars

-----------------------------------------------------------------------------
(* The bad-bot loop of checkBot and isKnownBadBot applied to one text      *)

InitMatch ==
    /\ InitRecord
    /\ file \in {okFile(bots) : bots \in BotLists}
    /\ InitOnce
    /\ c \in FieldPool
    /\ comment = <<>>
    /\ out = ""

\* One pass of the body of `for _, c := range v.comment` over the field c.
MatchBots ==
    /\ op = newOp
    /\ out' = matchBots(c, LoadBadBotsYAML(file, badBotsOnce, badBotsList), 1)
    /\ op' = [name |-> "matchBots", args |-> <<>>]
    /\ DoOnce
    /\ UNCHANGED <<p, pre, sections, ret, file, pc, got, c, comment>>

IsKnownBadBot ==
    /\ op = newOp
    /\ out' = isKnownBadBot(c, LoadBadBotsYAML(file, badBotsOnce, badBotsList))
    /\ op' = [name |-> "isKnownBadBot", args |-> <<>>]
    /\ DoOnce
    /\ UNCHANGED <<p, pre, sections, ret, file, pc, got, c, comment>>

NextMatch == MatchBots \/ IsKnownBadBot

SpecMatch == InitMatch /\ [][NextMatch]_vars

-----------------------------------------------------------------------------
(* LoadBadBotsYAML called by concurrent goroutines                         *)
(*                                                                         *)
(* badBotsOnce.Do(f) is sync.Once.Do: a load of done; when it is 0, lock   *)
(* m, load done again, and when it is still 0 run f, then store done = 1   *)
(* (deferred), then unlock m (deferred).                                   *)

InitConc ==
    /\ InitRecord
    /\ file \in {errFile} \cup {okFile(bots) : bots \in BotLists}
    /\ InitOnce
    /\ InitPure

\* LoadBadBotsYAML is entered.
Call(i) ==
    /\ pc[i] = "idle"
    /\ pc' = [pc EXCEPT ![i] = "fast"]
    /\ UNCHANGED <<p, pre, sections, ret, op, file, badBotsList, badBotsOnce,
                   got, loads, c, comment, out>>

\* Do: the first load of done.
OnceFast(i) ==
    /\ pc[i] = "fast"
    /\ pc' = [pc EXCEPT ![i] = IF badBotsOnce.done THEN "return" ELSE "lock"]
    /\ UNCHANGED <<p, pre, sections, ret, op, file, badBotsList, badBotsOnce,
                   got, loads, c, comment, out>>

\* doSlow: m.Lock().
OnceLock(i) ==
    /\ pc[i] = "lock"
    /\ badBotsOnce.m = 0
    /\ badBotsOnce' = [badBotsOnce EXCEPT !.m = i]
    /\ pc' = [pc EXCEPT ![i] = "slow"]
    /\ UNCHANGED <<p, pre, sections, ret, op, file, badBotsList, got, loads,
                   c, comment, out>>

\* doSlow running f without looking at done again.
OnceSlowNoRecheck(i) ==
    /\ pc[i] = "slow"
    /\ pc' = [pc EXCEPT ![i] = "load"]
    /\ UNCHANGED <<p, pre, sections, ret, op, file, badBotsList, badBotsOnce,
                   got, loads, c, comment, out>>

\* doSlow: the second load of done, under the lock.
OnceSlow(i) ==
    /\ pc[i] = "slow"
    /\ pc' = [pc EXCEPT ![i] = IF badBotsOnce.done THEN "unlock" ELSE "load"]
    /\ UNCHANGED <<p, pre, sections, ret, op, file, badBotsList, badBotsOnce,
                   got, loads, c, comment, out>>

\* f: LoadBadBots("bad_bots.yaml") is called.
LoadStart(i) ==
    /\ pc[i] = "load"
    /\ loads' = [loads EXCEPT !.started = @ + 1]
    /\ pc' = [pc EXCEPT ![i] = "assign"]
    /\ UNCHANGED <<p, pre, sections, ret, op, file, badBotsList, badBotsOnce,
                   got, c, comment, out>>

\* f: LoadBadBots returns and badBotsList is assigned when err == nil.
LoadFinish(i) ==
    /\ pc[i] = "assign"
    /\ badBotsList' = onceBody(file, badBotsList)
    /\ loads' = [loads EXCEPT !.finished = @ + 1]
    /\ pc' = [pc EXCEPT ![i] = "store"]
    /\ UNCHANGED <<p, pre, sections, ret, op, file, badBotsOnce, got, c,
                   comment, out>>

\* doSlow: the deferred done.Store(1).
OnceStore(i) ==
    /\ pc[i] = "store"
    /\ badBotsOnce' = [badBotsOnce EXCEPT !.done = TRUE]
    /\ pc' = [pc EXCEPT ![i] = "unlock"]
    /\ UNCHANGED <<p, pre, sections, ret, op, file, badBotsList, got, loads,
                   c, comment, out>>

\* doSlow: the deferred m.Unlock().
OnceUnlock(i) ==
    /\ pc[i] = "unlock"
    /\ badBotsOnce' = [badBotsOnce EXCEPT !.m = 0]
    /\ pc' = [pc EXCEPT ![i] = "return"]
    /\ UNCHANGED <<p, pre, sections, ret, op, file, badBotsList, got, loads,
                   c, comment, out>>

\* return badBotsList.
Return(i) ==
    /\ pc[i] = "return"
    /\ got' = [got EXCEPT ![i] = [set |-> TRUE, list |-> badBotsList]]
    /\ pc' = [pc EXCEPT ![i] = "idle"]
    /\ UNCHANGED <<p, pre, sections, ret, op, file, badBotsList, badBotsOnce,
                   loads, c, comment, out>>

NextConc ==
    \E i \in Procs :
        \/ Call(i)
        \/ OnceFast(i)
        \/ OnceLock(i)
        \/ OnceSlow(i)
        \/ LoadStart(i)
        \/ LoadFinish(i)
        \/ OnceStore(i)
        \/ OnceUnlock(i)
        \/ Return(i)

SpecConc == InitConc /\ [][NextConc]_vars

-----------------------------------------------------------------------------
(* Properties                                                              *)

general == ~(Len(sections) = 1 /\ sections[1].name # "Mozilla")

\* The identifier id occurs in the text t, letter case ignored.
Occurs(t, id) ==
    \E i \in 0..(Len(t) - Len(id)) :
        ToLower(SubSeq(t, i + 1, i + Len(id))) = ToLower(id)

\* The 0-based position of the leftmost occurrence of id in t.
Leftmost(t, id) ==
    Min({i \in 0..(Len(t) - Len(id)) :
            ToLower(SubSeq(t, i + 1, i + Len(id))) = ToLower(id)})

\* The positions in the list bots of the identifiers that occur in t.
Occurring(t, bots) == {k \in 1..Len(bots) : Occurs(t, bots[k])}

\* C1: a single section that is not named "Mozilla" and whose name contains a
\* configured identifier makes checkBot return true with isBot set, the
\* section's name as browser name and the empty string as browser version.
C1_SingleBadBotEmptyVersion ==
    (/\ op.name = "checkBot"
     /\ Len(sections) = 1
     /\ sections[1].name # "Mozilla"
     /\ Occurring(sections[1].name, badBotsList) # {})
    => (/\ ret = TRUE
        /\ p.bot
        /\ p.browser.Name = sections[1].name
        /\ p.browser.Version = "")

\* The version the text after the match gives: split on the first '/', the
\* second part cut at the first ' ' or ';'.
VersionAfter(t) ==
    LET slash == {i \in 1..Len(t) : Ch(t, i) = "/"}
    IN  IF slash = {} THEN ""
        ELSE LET rest == SubSeq(t, Min(slash) + 1, Len(t))
                 stops == {i \in 1..Len(rest) : Ch(rest, i) \in {" ", ";"}}
             IN  IF stops = {} THEN rest ELSE SubSeq(rest, 1, Min(stops) - 1)

\* C2: the version of a comment-field match is computed from the text of the
\* field that starts immediately after the matched occurrence, for every
\* identifier, also one that contains '/'.
C2_VersionFromTextAfterMatch ==
    (op.name = "matchBots" /\ out.matched # "")
    => LET idx == Leftmost(c, out.matched)
       IN  out.matchedVersion =
               VersionAfter(SubSeq(c, idx + Len(out.matched) + 1, Len(c)))

\* The field getFromSite looks at (1-based), by the length of the list.
Target(cm) ==
    CASE Len(cm) \in {1, 2} -> 1
      [] Len(cm) = 4 -> 4
      [] OTHER -> 3

UrlShaped(f) == botFromSiteRegexp(f) # <<>>

\* C3 as stated: with a URL-shaped field at index 0 the result is that whole
\* field.
C3_WholeFieldAtIndexZero ==
    op.name = "getFromSite"
    => IF Len(comment) = 0 THEN out = ""
       ELSE LET t == Target(comment)
            IN  IF ~UrlShaped(comment[t]) THEN out = ""
                ELSE IF t = 1 THEN out = comment[1]
                ELSE out = TrimSpace(comment[t - 1])

SchemeAt(f, a) == hasAt(f, a, "http://") \/ hasAt(f, a, "https://")

\* m is the URL text of f: it starts at the first "http://" or "https://" of f
\* and ends with the run of word characters after the last '.' of f that a
\* word character follows.
UrlTextOf(m, f) ==
    \E a \in 1..Len(f), b \in 1..Len(f) :
        /\ m = SubSeq(f, a, b)
        /\ SchemeAt(f, a)
        /\ \A a2 \in 1..(a - 1) : ~SchemeAt(f, a2)
        /\ \E d \in a..(b - 1) :
              /\ Ch(f, d) = "."
              /\ \A j \in (d + 1)..b : isWord(Ch(f, j))
              /\ b = Len(f) \/ ~isWord(Ch(f, b + 1))
              /\ \A d2 \in (d + 1)..(Len(f) - 1) :
                    ~(Ch(f, d2) = "." /\ isWord(Ch(f, d2 + 1)))

\* C3 (amended): getFromSite is empty for an empty list; it looks only at index
\* 0 for 1 or 2 fields, index 3 for 4 fields and index 2 otherwise; the result
\* is empty when that field is not URL-shaped, the URL text found inside the
\* field when the index is 0, and the trimmed previous field otherwise.
C3_SiteReference ==
    op.name = "getFromSite"
    => IF Len(comment) = 0 THEN out = ""
       ELSE LET t == Target(comment)
            IN  IF ~UrlShaped(comment[t]) THEN out = ""
                ELSE IF t = 1 THEN UrlTextOf(out, comment[1])
                ELSE out = TrimSpace(comment[t - 1])

\* C3 witness: a one-field list whose field holds a URL between other text, and
\* getFromSite has returned the URL alone.
C3_Witness ==
    /\ op.name = "getFromSite"
    /\ Len(comment) = 1
    /\ out # ""
    /\ out # comment[1]

\* The comment fields of section v in which the bad-bot loop reports a match:
\* the first identifier of the list that occurs in the field is not empty.
BotFields(v, bots) ==
    {j \in 1..Len(v.comment) :
        /\ Occurring(v.comment[j], bots) # {}
        /\ bots[Min(Occurring(v.comment[j], bots))] # ""}

HasSignal(v, bots) ==
    \/ BotFields(v, bots) # {}
    \/ getFromSite(v.comment) # ""
    \/ Occurring(v.name, bots) # {}

\* The name and version section v decides on.
Decision(v, bots) ==
    IF BotFields(v, bots) # {}
    THEN LET f == v.comment[Min(BotFields(v, bots))]
             id == bots[Min(Occurring(f, bots))]
             idx == Leftmost(f, id)
         IN  <<SubSeq(f, idx + 1, idx + Len(id)),
               matchBots(f, bots, 1).matchedVersion>>
    ELSE IF getFromSite(v.comment) # ""
    THEN LET site == getFromSite(v.comment)
             slash == {i \in 1..Len(site) : Ch(site, i) = "/"}
         IN  IF slash = {} THEN <<site, "">>
             ELSE <<SubSeq(site, 1, Min(slash) - 1),
                    SubSeq(site, Min(slash) + 1, Len(site))>>
    ELSE <<v.name, v.version>>

Signalling == {i \in 1..Len(sections) : HasSignal(sections[i], badBotsList)}

\* C4: in the general case the first section, in list order, that gives any
\* signal decides; inside it a comment-field match beats a site reference,
\* which beats a match of the section name.
C4_FirstSignallingSectionDecides ==
    (op.name = "checkBot" /\ general)
    => IF Signalling = {} THEN ret = FALSE
       ELSE LET d == Decision(sections[Min(Signalling)], badBotsList)
            IN  /\ ret = TRUE
                /\ p.browser.Name = d[1]
                /\ p.browser.Version = d[2]

\* C4 witness: two sections, the first with nothing but a match of its name,
\* the second with a comment-field match, and the first has decided.
C4_Witness ==
    /\ op.name = "checkBot"
    /\ Len(sections) = 2
    /\ BotFields(sections[1], badBotsList) = {}
    /\ getFromSite(sections[1].comment) = ""
    /\ Occurring(sections[1].name, badBotsList) # {}
    /\ BotFields(sections[2], badBotsList) # {}
    /\ ret = TRUE
    /\ p.browser.Name = sections[1].name
    /\ p.browser.Version = sections[1].version

\* C5: the bad-bot loop uses the first identifier of the list that occurs in
\* the field, and reports the text of the field at the leftmost occurrence of
\* that identifier, in the field's own letter case.
C5_FirstIdentifierOriginalCase ==
    op.name = "matchBots"
    => IF Occurring(c, badBotsList) = {}
       THEN out.matched = "" /\ out.matchedOriginal = ""
       ELSE LET id == badBotsList[Min(Occurring(c, badBotsList))]
                idx == Leftmost(c, id)
            IN  /\ out.matched = id
                /\ out.matchedOriginal = SubSeq(c, idx + 1, idx + Len(id))
                /\ id # "" => nameToSet(out) = out.matchedOriginal

\* C5 witness: the identifier used stands later in the field than another
\* identifier of the list, and the field spells it in another letter case.
C5_Witness ==
    /\ op.name = "matchBots"
    /\ out.matched # ""
    /\ out.matchedOriginal # out.matched
    /\ \E k \in Occurring(c, badBotsList) :
          Leftmost(c, badBotsList[k]) < Leftmost(c, out.matched)

cleared(u) ==
    /\ u.browser.Engine = ""
    /\ u.browser.EngineVersion = ""
    /\ u.os = ""
    /\ u.localization = ""

\* C6: when checkBot returns true the record is a bot with engine, engine
\* version, os and localization empty and with mozilla, platform, undecided
\* and ua as before the call; setSimple writes name, version and bot, clears
\* those four fields and clears mozilla exactly when bot is false.
C6_TrueClearsAndKeeps ==
    /\ (op.name = "checkBot" /\ ret = TRUE)
       => (/\ p.bot
           /\ cleared(p)
           /\ p.mozilla = pre.mozilla
           /\ p.platform = pre.platform
           /\ p.undecided = pre.undecided
           /\ p.ua = pre.ua)
    /\ op.name = "setSimple"
       => (/\ p.browser.Name = op.args[1]
           /\ p.browser.Version = op.args[2]
           /\ p.bot = op.args[3]
           /\ cleared(p)
           /\ p.mozilla = (IF op.args[3] THEN pre.mozilla ELSE "")
           /\ p.platform = pre.platform
           /\ p.undecided = pre.undecided
           /\ p.ua = pre.ua)

\* C6 witness: checkBot has returned true on a record that held a Mozilla
\* marker, an engine and an os.
C6_Witness ==
    /\ op.name = "checkBot"
    /\ ret = TRUE
    /\ pre.mozilla # ""
    /\ pre.browser.Engine # ""
    /\ pre.os # ""
    /\ pre.platform # ""

Loaded == IF file.err THEN <<>> ELSE file.bots

\* C8: LoadBadBots is started at most once, no LoadBadBotsYAML call returns
\* before that one load has finished, and every call returns the loaded list,
\* or the empty list when the load failed.
C8_LoadedOnce ==
    /\ loads.started <= 1
    /\ \A i \in Procs :
          /\ pc[i] = "return" => loads.finished = 1
          /\ got[i].set => (loads.finished = 1 /\ got[i].list = Loaded)

\* C8 witness: the load has failed, every goroutine has got its list, and one
\* goroutine is inside a later call.
C8_Witness ==
    /\ file.err
    /\ \A i \in Procs : got[i].set
    /\ \E i \in Procs : pc[i] = "return"

\* C9: iMessagePreview returns true exactly when the header contains both
\* "facebookexternalhit" and "Twitterbot"; then it sets bot, the browser name
\* and the two empty engine fields and nothing else; otherwise it changes
\* nothing.
C9_IMessagePreview ==
    op.name = "iMessagePreview"
    => /\ ret = (/\ \E i \in 1..Len(pre.ua) : hasAt(pre.ua, i, "facebookexternalhit")
                 /\ \E i \in 1..Len(pre.ua) : hasAt(pre.ua, i, "Twitterbot"))
       /\ ret => p = [pre EXCEPT !.bot = TRUE,
                                 !.browser.Name = "iMessage-Preview",
                                 !.browser.Engine = "",
                                 !.browser.EngineVersion = ""]
       /\ ~ret => p = pre

\* C9 witness: iMessagePreview has returned true on a record that held a
\* version, an os, a platform and a Mozilla marker.
C9_Witness ==
    /\ op.name = "iMessagePreview"
    /\ ret = TRUE
    /\ pre.browser.Version # ""
    /\ pre.browser.Engine # ""
    /\ pre.os # ""
    /\ pre.mozilla # ""

\* C10: on every text the bad-bot loop reports a match exactly when
\* isKnownBadBot is true of the text.
C10_ModesAgree ==
    /\ op.name = "matchBots"
       => ((out.matched # "") <=> isKnownBadBot(c, badBotsList))
    /\ op.name = "isKnownBadBot"
       => (out <=> (matchBots(c, badBotsList, 1).matched # ""))

====
